---- MODULE Spec2Model ----
(***************************************************************************)
(* Session controller of the Zo voice front-end, in its two variants:      *)
(*   "simple"  src/script.js           (no backend, no debounce timer)     *)
(*   "rich"    src/unnamed/part_001    (debounce timer, backend dispatch)  *)
(*                                                                         *)
(* The page is single threaded: every action below is one callback run to  *)
(* completion (a click, a recognition event, a timer, the continuation of  *)
(* the awaited getUserMedia).  The browser objects are modelled by what    *)
(* the handlers can observe of them:                                       *)
(*   rec          the SpeechRecognition object's session                   *)
(*   ctxOpen      number of AudioContext objects created and not closed    *)
(*   streamsLive  number of MediaStreams whose tracks were not stopped     *)
(*   gumPending   number of startVisualizer calls suspended at the await   *)
(*   timers       ids of the setTimeout timers scheduled, not yet fired    *)
(*                and not cleared                                          *)
(*   inFlight     number of fetch calls of sendToBackend not yet settled   *)
(*   speechQueue  number of utterances speechSynthesis holds, the one      *)
(*                being spoken included; speechSynthesis.speaking is read  *)
(*                as "the queue is not empty"                              *)
(*   rafLoops     number of renderVisualizerFrame callbacks scheduled      *)
(*                with requestAnimationFrame                               *)
(*   setTranscript  the text the callback that ran last passed to          *)
(*                setTranscript, Nothing when it passed none; the page     *)
(*                never reads the element back.  A recognised transcript   *)
(*                reads "<transcript>", a reply "<response>"               *)
(* A bar's style is a pair of numerators: scale in 510ths (0.5 is 255,     *)
(* byte/255 is 2*byte), opacity in 1020ths (0.25 is 255, byte/255 is       *)
(* 4*byte).                                                                *)
(* An object no global refers to can never be released by the page, so     *)
(* counting the open/live ones is exact.                                   *)
(* Strings are sequences of one-character strings.                         *)
(***************************************************************************)
EXTENDS Naturals, Sequences, FiniteSets, TLC

VARIABLES
  variant,              \* which of the two scripts the page loaded
  isListeningForSTT,    \* part_001:25, script.js:17
  isVisualizerActive,   \* part_001:26, script.js:18
  audioContext,         \* "undefined" | "open" | "null"  (part_001:7)
  mediaStreamSource,    \* "undefined" | "node" | "null"  (part_001:9)
  ctxOpen,
  streamsLive,
  gumPending,
  rec,                  \* "idle" | "starting" | "running" | "stopping" | "errored"
  micButton,            \* text of microphoneButton: "start" | "stop"
  sttFinalTranscript,   \* part_001:27
  sttPauseTimer,        \* part_001:28; 0 is null, else a timer id
  timers,
  sent,                 \* requests issued by sendToBackend, in order
  inFlight,
  setTranscript,
  speechQueue,
  visualValueCount,     \* part_001:11-19, script.js:11
  visualElements,       \* the bars' styles, by index; NoElements while undefined
  rafLoops,
  \* history variables, read only by the properties
  heard,                \* non-space characters of every final result delivered
  sinceFire,            \* final results' texts delivered since the last timer fire
  sinceClear,           \* per event, the final texts delivered since the buffer was last emptied
  fired,                \* a debounce timer has fired before
  nEvents,              \* result events delivered so far
  last,                 \* the callback that ran last
  tt,                   \* 2 after two toggles in a row from idle, until another user action or session end
  errSeen,              \* a capture-start failure or recognition error happened since the last toggle
  lateFinal,            \* a final result arrived after a stop request or an error, in this session
  settled,              \* the reply the fetch continuation that ran last received
  fault                 \* a callback ended in an uncaught TypeError

vars == << variant, isListeningForSTT, isVisualizerActive, audioContext,
           mediaStreamSource, ctxOpen, streamsLive, gumPending, rec, micButton,
           sttFinalTranscript, sttPauseTimer, timers, sent, inFlight, setTranscript,
           speechQueue, visualValueCount, visualElements, rafLoops,
           heard, sinceFire, sinceClear, fired, nEvents, last, tt, errSeen, lateFinal,
           settled, fault >>

\* ---------------------------------------------------------------- bounds
\* Spec explores the capture and session races of both variants with few result
\* events; SpecRich explores the richer variant's transcript handling with many
\* result events and no overlapping capture requests; SpecSerial is Spec without
\* overlapping capture requests.  These three leave out the backend's replies
\* and the end of speech, and SpecRich the render loop too: SpecBackend and
\* SpecVis explore them.
\* toggle() is the controller's one operation and may be called in any state:
\* where the page puts the button is not part of the sources.
\* result events delivered in one run of Spec / of SpecRich
MaxEventsCtl == 1
MaxEvents == 2
\* AudioContexts open, streams live, getUserMedia requests pending and render
\* loops scheduled at once, in Spec / in SpecRich
MaxCapture == 2
MaxCaptureRich == 1

\* ---------------------------------------------------------------- strings
SP == " "

RECURSIVE TrimLeft(_)
TrimLeft(s) == IF s # << >> /\ Head(s) = SP THEN TrimLeft(Tail(s)) ELSE s

RECURSIVE TrimRight(_)
TrimRight(s) ==
  IF s # << >> /\ s[Len(s)] = SP THEN TrimRight(SubSeq(s, 1, Len(s) - 1)) ELSE s

\* String.prototype.trim
Trim(s) == TrimRight(TrimLeft(s))

\* the characters of s other than spaces
NonSpace(s) == SelectSeq(s, LAMBDA c : c # SP)

\* the strings of ss, one after the other
RECURSIVE Concat(_)
Concat(ss) == IF ss = << >> THEN << >> ELSE Head(ss) \o Concat(Tail(ss))

\* the strings of ss joined by single spaces
RECURSIVE JoinSp(_)
JoinSp(ss) ==
  IF ss = << >> THEN << >>
  ELSE IF Len(ss) = 1 THEN Head(ss)
  ELSE Head(ss) \o <<SP>> \o JoinSp(Tail(ss))

\* ---------------------------------------------------------------- inputs
\* one SpeechRecognitionResult: its first alternative's transcript, and isFinal
Result(t, f) == [transcript |-> t, isFinal |-> f]

Transcripts == { <<"a">>, <<"b">>, <<SP>> }

Results == { Result(t, TRUE) : t \in Transcripts } \cup { Result(<<"a">>, FALSE) }

\* event.results from event.resultIndex on: one or two results
Events ==
  { <<r>> : r \in Results }
    \cup { << Result(<<"a">>, TRUE), Result(<<"b">>, TRUE) >>,
           << Result(<<"b">>, TRUE), Result(<<"a">>, FALSE) >> }

\* the one event Spec delivers
EventsCtl == { << Result(<<"a">>, TRUE) >> }

ErrorKinds == { "no-speech", "not-allowed", "network" }

\* how a fetch of sendToBackend can settle: the promise rejects, or resolves
\* with a status and a body
Bodies == { "response", "emptyResponse", "noField", "unparseable" }

Reply(f, ok, b) == [fetch |-> f, ok |-> ok, body |-> b]

Replies ==
  { Reply("rejected", FALSE, "none"), Reply("resolved", FALSE, "none") }
    \cup { Reply("resolved", TRUE, b) : b \in Bodies }

NoReply == Reply("none", FALSE, "none")

\* analyser.fftSize, and the number of bytes getByteFrequencyData fills
fftSize == 64
frequencyBinCount == fftSize \div 2

\* the frames the analyser delivers: silence, full scale, a ramp over the buckets
Frames ==
  { [k \in 0..(frequencyBinCount - 1) |-> 0],
    [k \in 0..(frequencyBinCount - 1) |-> 255],
    [k \in 0..(frequencyBinCount - 1) |-> 8 * k] }

\* the one frame Spec, SpecRich and SpecSerial deliver
FramesCtl == { [k \in 0..(frequencyBinCount - 1) |-> 8 * k] }

\* the values visualValueCount takes: by user agent in part_001, fixed in script.js
visualValueCounts(v) == IF v = "simple" THEN {32} ELSE {16, 32}

\* the loop of onresult: the final results' transcripts, concatenated
RECURSIVE finalTranscriptSinceLastResult(_)
finalTranscriptSinceLastResult(ev) ==
  IF ev = << >> THEN << >>
  ELSE (IF Head(ev).isFinal THEN Head(ev).transcript ELSE << >>)
         \o finalTranscriptSinceLastResult(Tail(ev))

\* ---------------------------------------------------------------- helpers
\* (mutant) clearTimeout forgotten: the superseded timer stays scheduled
ClearTimeoutForgotten(ts, id) == ts

\* clearTimeout(id): the timer, if still scheduled, never fires
ClearTimeout(ts, id) == ts \ {id}

\* setTimeout returns an id no scheduled timer has
FreshTimer(ts) == CHOOSE i \in 1..(Cardinality(ts) + 1) : i \notin ts

\* (mutant) the separating space forgotten
appendFinalNoSpace(buf, fin) == IF fin # << >> THEN buf \o fin ELSE buf

\* onresult appends what the event finalised, and a space, to the buffer
appendFinal(buf, fin) == IF fin # << >> THEN buf \o fin \o <<SP>> ELSE buf

\* (mutant) speak without cancelling what is being spoken
speakTextNoCancel(q) == q + 1

\* speakText: the synthesis queue after the call
speakText(q) == (IF q > 0 THEN 0 ELSE q) + 1

\* (mutant) every reply without usable text is reported as a connection failure
replyMessageOneFallback(r) ==
  IF r.fetch = "resolved" /\ r.ok /\ r.body = "response" THEN "<response>"
  ELSE "Sorry, I couldn't connect to the AI."

\* the text sendToBackend displays and speaks once its fetch has settled as r
replyMessage(r) ==
  IF r.fetch = "rejected" THEN "Sorry, I couldn't connect to the AI."
  ELSE IF ~r.ok THEN "Sorry, I couldn't connect to the AI."
  ELSE IF r.body = "unparseable" THEN "Sorry, I couldn't connect to the AI."
  ELSE IF r.body = "response" THEN "<response>"
  ELSE "Sorry, I didn't get a valid response."

\* the message onerror chooses
errorMessage(kind) ==
  IF kind = "no-speech" THEN "I didn't hear anything. Please try again."
  ELSE IF kind = "not-allowed"
    THEN "Microphone access denied. Please allow it in your browser settings."
  ELSE "Speech input error. Please try again."

\* no call of setTranscript
Nothing == ""

\* one bar's style
Bar(s, o) == [scale |-> s, opacity |-> o]

\* visualElements before createDOMElementsForVisualizer has run
NoElements == [i \in {} |-> Bar(0, 0)]

\* every bar of elms styled b
Styled(elms, b) == [i \in DOMAIN elms |-> b]

dataMap ==
  (15 :> 0) @@ (16 :> 1) @@ (14 :> 2) @@ (17 :> 3) @@ (13 :> 4) @@ (18 :> 5)
    @@ (12 :> 6) @@ (19 :> 7) @@ (11 :> 8) @@ (20 :> 9) @@ (10 :> 10) @@ (21 :> 11)
    @@ (9 :> 12) @@ (22 :> 13) @@ (8 :> 14) @@ (23 :> 15) @@ (7 :> 16) @@ (24 :> 17)
    @@ (6 :> 18) @@ (25 :> 19) @@ (5 :> 20) @@ (26 :> 21) @@ (4 :> 22) @@ (27 :> 23)
    @@ (3 :> 24) @@ (28 :> 25) @@ (2 :> 26) @@ (29 :> 27) @@ (1 :> 28) @@ (30 :> 29)
    @@ (0 :> 30) @@ (31 :> 31)

\* (mutant) the opacity floor forgotten
processFrameNoFloor(elms, data, n) ==
  [i \in DOMAIN elms |->
     IF i < n THEN LET value == data[dataMap[i]] IN Bar(2 * value, 4 * value)
     ELSE elms[i]]

\* processFrameForVisualizer(data): the bars after the call
processFrameForVisualizer(elms, data, n) ==
  [i \in DOMAIN elms |->
     IF i < n
       THEN LET value == data[dataMap[i]]
            IN Bar(2 * value, IF 4 * value > 255 THEN 4 * value ELSE 255)
       ELSE elms[i]]

\* sendToBackend(text): the requests issued, after the call
sendToBackend(log, text, by) ==
  IF text = << >> \/ Trim(text) = << >> THEN log
  ELSE Append(log, [text |-> text, by |-> by])

\* sendToBackend(text), up to the await of fetch
Request(text, by) ==
  /\ sent' = sendToBackend(sent, text, by)
  /\ IF text = << >> \/ Trim(text) = << >>
       THEN setTranscript' = Nothing /\ UNCHANGED inFlight
       ELSE /\ inFlight' = inFlight + 1
            /\ setTranscript' = "Thinking..."

\* the synchronous part of startVisualizer, up to the await
startVisualizer ==
  IF isVisualizerActive
    THEN UNCHANGED << audioContext, ctxOpen, gumPending, visualElements >>
    ELSE /\ visualElements' = [i \in 0..(visualValueCount - 1) |-> Bar(255, 255)]
         /\ audioContext' = "open"
         /\ ctxOpen' = ctxOpen + 1
         /\ gumPending' = gumPending + 1

\* (mutant) the source is used without the guard: a TypeError once it is null
stopVisualizerUnguarded ==
  IF mediaStreamSource = "node"
    THEN /\ mediaStreamSource' = "null"
         /\ streamsLive' = streamsLive - 1
         /\ audioContext' = IF audioContext = "open" THEN "null" ELSE audioContext
         /\ ctxOpen' = IF audioContext = "open" THEN ctxOpen - 1 ELSE ctxOpen
         /\ isVisualizerActive' = FALSE
         /\ visualElements' = Styled(visualElements, Bar(0, 0))
         /\ fault' = (fault \/ visualElements = NoElements)
    ELSE /\ fault' = TRUE
         /\ UNCHANGED << mediaStreamSource, streamsLive, audioContext, ctxOpen,
                         isVisualizerActive, visualElements >>

\* stopVisualizer; visualElements.forEach throws while visualElements is undefined
stopVisualizer ==
  /\ mediaStreamSource' = IF mediaStreamSource = "node" THEN "null" ELSE mediaStreamSource
  /\ streamsLive' = IF mediaStreamSource = "node" THEN streamsLive - 1 ELSE streamsLive
  /\ audioContext' = IF audioContext = "open" THEN "null" ELSE audioContext
  /\ ctxOpen' = IF audioContext = "open" THEN ctxOpen - 1 ELSE ctxOpen
  /\ isVisualizerActive' = FALSE
  /\ visualElements' = Styled(visualElements, Bar(0, 0))
  /\ fault' = (fault \/ visualElements = NoElements)

processVisualizerError ==
  /\ isVisualizerActive' = FALSE
  /\ micButton' = "start"
  /\ setTranscript' = "Mic Access Denied"
  /\ speechQueue' = IF variant = "rich" THEN speakText(speechQueue) ELSE speechQueue

Idle ==
  /\ ~isListeningForSTT /\ ~isVisualizerActive
  /\ rec = "idle" /\ gumPending = 0 /\ ctxOpen = 0 /\ streamsLive = 0

\* the history after one more result event
Delivered(ev) ==
  LET fins == SelectSeq(ev, LAMBDA r : r.isFinal)
      txts == [i \in 1..Len(fins) |-> fins[i].transcript]
      chars == NonSpace(Concat(txts))
  IN /\ heard' = heard \o chars
     /\ sinceFire' = sinceFire \o txts
     /\ sinceClear' = Append(sinceClear, txts)
     /\ nEvents' = nEvents + 1
     /\ lateFinal' = (lateFinal \/ (rec \in {"stopping", "errored"} /\ chars # << >>))

\* ---------------------------------------------------------------- initial state
\* the page once its load handler has run: the status line is set and, in
\* part_001, the greeting is being spoken
Init ==
  /\ variant \in {"simple", "rich"}
  /\ isListeningForSTT = FALSE
  /\ isVisualizerActive = FALSE
  /\ audioContext = "undefined"
  /\ mediaStreamSource = "undefined"
  /\ ctxOpen = 0
  /\ streamsLive = 0
  /\ gumPending = 0
  /\ rec = "idle"
  /\ micButton = "start"
  /\ sttFinalTranscript = << >>
  /\ sttPauseTimer = 0
  /\ timers = {}
  /\ sent = << >>
  /\ inFlight = 0
  /\ setTranscript = "Click \"start\" to talk."
  /\ speechQueue = (IF variant = "rich" THEN speakText(0) ELSE 0)
  /\ visualValueCount \in visualValueCounts(variant)
  /\ visualElements = NoElements
  /\ rafLoops = 0
  /\ heard = << >>
  /\ sinceFire = << >>
  /\ sinceClear = << >>
  /\ fired = FALSE
  /\ nEvents = 0
  /\ last = "load"
  /\ tt = 0
  /\ errSeen = FALSE
  /\ lateFinal = FALSE
  /\ settled = NoReply
  /\ fault = FALSE

\* ---------------------------------------------------------------- actions
\* (mutant) toggle() cleans up inline when it stops the session
toggleInlineCleanup(cap) ==
  /\ IF isListeningForSTT
       THEN /\ rec' = IF rec \in {"starting", "running"} THEN "stopping" ELSE rec
            /\ stopVisualizer
            /\ micButton' = "start"
            /\ UNCHANGED << gumPending, isListeningForSTT >>
       ELSE /\ ~isVisualizerActive => (ctxOpen < cap /\ gumPending < cap)
            /\ startVisualizer
            /\ rec' = IF rec = "idle" THEN "starting" ELSE rec
            /\ UNCHANGED << isVisualizerActive, mediaStreamSource, streamsLive, micButton,
                            fault, isListeningForSTT >>
  /\ tt' = IF Idle THEN 1 ELSE IF tt = 1 /\ last = "toggle" THEN 2 ELSE 0
  /\ errSeen' = FALSE
  /\ last' = "toggle"
  /\ settled' = NoReply
  /\ setTranscript' = Nothing
  /\ UNCHANGED << variant, sttFinalTranscript, sttPauseTimer, timers, sent, inFlight,
                  speechQueue, visualValueCount, rafLoops, heard, sinceFire, sinceClear,
                  fired, nEvents, lateFinal >>

\* (mutant) toggle() sets the listening flag itself when it starts a session
toggleSetsListening(cap) ==
  /\ IF isListeningForSTT
       THEN /\ rec' = IF rec \in {"starting", "running"} THEN "stopping" ELSE rec
            /\ UNCHANGED << audioContext, ctxOpen, gumPending, visualElements,
                            isListeningForSTT >>
       ELSE /\ ~isVisualizerActive => (ctxOpen < cap /\ gumPending < cap)
            /\ startVisualizer
            /\ rec' = IF rec = "idle" THEN "starting" ELSE rec
            /\ isListeningForSTT' = TRUE
  /\ tt' = IF Idle THEN 1 ELSE IF tt = 1 /\ last = "toggle" THEN 2 ELSE 0
  /\ errSeen' = FALSE
  /\ last' = "toggle"
  /\ settled' = NoReply
  /\ setTranscript' = Nothing
  /\ UNCHANGED << variant, isVisualizerActive, mediaStreamSource, streamsLive, micButton,
                  sttFinalTranscript, sttPauseTimer, timers, sent, inFlight, speechQueue,
                  visualValueCount, rafLoops, heard, sinceFire, sinceClear, fired,
                  nEvents, lateFinal, fault >>

\* the button's onclick
toggleSTTAndVisualizer(cap) ==
  /\ IF isListeningForSTT
       THEN \* recognition.stop()
            /\ rec' = IF rec \in {"starting", "running"} THEN "stopping" ELSE rec
            /\ UNCHANGED << audioContext, ctxOpen, gumPending, visualElements >>
       ELSE /\ ~isVisualizerActive => (ctxOpen < cap /\ gumPending < cap)
            /\ startVisualizer
            \* recognition.start() throws InvalidStateError while a session exists
            /\ rec' = IF rec = "idle" THEN "starting" ELSE rec
  /\ tt' = IF Idle THEN 1 ELSE IF tt = 1 /\ last = "toggle" THEN 2 ELSE 0
  /\ errSeen' = FALSE
  /\ last' = "toggle"
  /\ settled' = NoReply
  /\ setTranscript' = Nothing
  /\ UNCHANGED << variant, isListeningForSTT, isVisualizerActive, mediaStreamSource,
                  streamsLive, micButton, sttFinalTranscript, sttPauseTimer, timers, sent,
                  inFlight, speechQueue, visualValueCount, rafLoops, heard, sinceFire,
                  sinceClear, fired, nEvents, lateFinal, fault >>

\* getUserMedia resolved: startVisualizer resumes after the await
GumResolve(cap) ==
  /\ gumPending > 0
  /\ streamsLive < cap
  /\ gumPending' = gumPending - 1
  /\ streamsLive' = streamsLive + 1
  /\ IF audioContext = "open"
       THEN /\ rafLoops < cap
            /\ mediaStreamSource' = "node"
            /\ isVisualizerActive' = TRUE
            /\ rafLoops' = rafLoops + 1
            /\ setTranscript' = Nothing
            /\ UNCHANGED << micButton, errSeen, speechQueue >>
       ELSE \* audioContext is null: TypeError, caught
            /\ processVisualizerError
            /\ errSeen' = TRUE
            /\ UNCHANGED << mediaStreamSource, rafLoops >>
  /\ last' = "gumOk"
  /\ settled' = NoReply
  /\ UNCHANGED << variant, isListeningForSTT, audioContext, ctxOpen, rec,
                  sttFinalTranscript, sttPauseTimer, timers, sent, inFlight,
                  visualValueCount, visualElements, heard, sinceFire, sinceClear, fired,
                  nEvents, tt, lateFinal, fault >>

\* getUserMedia rejected: the catch block
GumReject ==
  /\ gumPending > 0
  /\ gumPending' = gumPending - 1
  /\ processVisualizerError
  /\ errSeen' = TRUE
  /\ last' = "gumFail"
  /\ settled' = NoReply
  /\ UNCHANGED << variant, isListeningForSTT, audioContext, mediaStreamSource, ctxOpen,
                  streamsLive, rec, sttFinalTranscript, sttPauseTimer, timers, sent,
                  inFlight, visualValueCount, visualElements, rafLoops, heard, sinceFire,
                  sinceClear, fired, nEvents, tt, lateFinal, fault >>

\* one run of renderVisualizerFrame, reading data from the analyser
RenderFrame(data) ==
  /\ rafLoops > 0
  /\ IF isVisualizerActive
       THEN /\ visualElements' = processFrameForVisualizer(visualElements, data, visualValueCount)
            /\ UNCHANGED rafLoops
       ELSE /\ visualElements' = Styled(visualElements, Bar(0, 0))
            /\ rafLoops' = rafLoops - 1
  /\ last' = "frame"
  /\ settled' = NoReply
  /\ setTranscript' = Nothing
  /\ UNCHANGED << variant, isListeningForSTT, isVisualizerActive, audioContext,
                  mediaStreamSource, ctxOpen, streamsLive, gumPending, rec, micButton,
                  sttFinalTranscript, sttPauseTimer, timers, sent, inFlight, speechQueue,
                  visualValueCount, heard, sinceFire, sinceClear, fired, nEvents, tt,
                  errSeen, lateFinal, fault >>

OnStartSimple ==
  /\ variant = "simple"
  /\ rec = "starting"
  /\ rec' = "running"
  /\ isListeningForSTT' = TRUE
  /\ setTranscript' = "Listening..."
  /\ micButton' = "stop"
  /\ lateFinal' = FALSE
  /\ last' = "onstart"
  /\ settled' = NoReply
  /\ UNCHANGED << variant, isVisualizerActive, audioContext, mediaStreamSource, ctxOpen,
                  streamsLive, gumPending, sttFinalTranscript, sttPauseTimer, timers,
                  sent, inFlight, speechQueue, visualValueCount, visualElements, rafLoops,
                  heard, sinceFire, sinceClear, fired, nEvents, tt, errSeen, fault >>

OnStartRich ==
  /\ variant = "rich"
  /\ rec = "starting"
  /\ rec' = "running"
  /\ isListeningForSTT' = TRUE
  /\ sttFinalTranscript' = << >>
  /\ timers' = ClearTimeout(timers, sttPauseTimer)
  \* if (speechSynthesis.speaking) speechSynthesis.cancel()
  /\ speechQueue' = 0
  /\ setTranscript' = "Listening..."
  /\ micButton' = "stop"
  /\ sinceClear' = << >>
  /\ lateFinal' = FALSE
  /\ last' = "onstart"
  /\ settled' = NoReply
  /\ UNCHANGED << variant, isVisualizerActive, audioContext, mediaStreamSource, ctxOpen,
                  streamsLive, gumPending, sttPauseTimer, sent, inFlight,
                  visualValueCount, visualElements, rafLoops, heard, sinceFire, fired,
                  nEvents, tt, errSeen, fault >>

\* (mutant) the simpler variant schedules a debounce timer too
OnResultSimpleDebounced(ev, maxEv) ==
  /\ variant = "simple"
  /\ rec \in {"running", "stopping", "errored"}
  /\ nEvents < maxEv
  /\ setTranscript' = "<transcript>"
  /\ LET id == FreshTimer(timers)
     IN /\ sttPauseTimer' = id
        /\ timers' = timers \cup {id}
  /\ Delivered(ev)
  /\ last' = "onresult"
  /\ settled' = NoReply
  /\ UNCHANGED << variant, isListeningForSTT, isVisualizerActive, audioContext,
                  mediaStreamSource, ctxOpen, streamsLive, gumPending, rec, micButton,
                  sttFinalTranscript, sent, inFlight, speechQueue, visualValueCount,
                  visualElements, rafLoops, fired, tt, errSeen, fault >>

OnResultSimple(ev, maxEv) ==
  /\ variant = "simple"
  /\ rec \in {"running", "stopping", "errored"}
  /\ nEvents < maxEv
  /\ setTranscript' = "<transcript>"
  /\ Delivered(ev)
  /\ last' = "onresult"
  /\ settled' = NoReply
  /\ UNCHANGED << variant, isListeningForSTT, isVisualizerActive, audioContext,
                  mediaStreamSource, ctxOpen, streamsLive, gumPending, rec, micButton,
                  sttFinalTranscript, sttPauseTimer, timers, sent, inFlight, speechQueue,
                  visualValueCount, visualElements, rafLoops, fired, tt, errSeen, fault >>

\* (mutant) results after the session stopped listening are ignored
OnResultRichDropLate(ev, maxEv) ==
  /\ variant = "rich"
  /\ rec \in {"running", "stopping", "errored"}
  /\ nEvents < maxEv
  /\ LET cleared == ClearTimeout(timers, sttPauseTimer)
         fin == finalTranscriptSinceLastResult(ev)
         id == FreshTimer(cleared)
     IN /\ sttFinalTranscript' =
             IF rec = "running" THEN appendFinal(sttFinalTranscript, fin) ELSE sttFinalTranscript
        /\ sttPauseTimer' = id
        /\ timers' = cleared \cup {id}
  /\ setTranscript' = "<transcript>"
  /\ Delivered(ev)
  /\ last' = "onresult"
  /\ settled' = NoReply
  /\ UNCHANGED << variant, isListeningForSTT, isVisualizerActive, audioContext,
                  mediaStreamSource, ctxOpen, streamsLive, gumPending, rec, micButton,
                  sent, inFlight, speechQueue, visualValueCount, visualElements, rafLoops,
                  fired, tt, errSeen, fault >>

OnResultRich(ev, maxEv) ==
  /\ variant = "rich"
  /\ rec \in {"running", "stopping", "errored"}
  /\ nEvents < maxEv
  /\ LET cleared == ClearTimeout(timers, sttPauseTimer)
         fin == finalTranscriptSinceLastResult(ev)
         id == FreshTimer(cleared)
     IN /\ sttFinalTranscript' = appendFinal(sttFinalTranscript, fin)
        /\ sttPauseTimer' = id
        /\ timers' = cleared \cup {id}
  /\ setTranscript' = "<transcript>"
  /\ Delivered(ev)
  /\ last' = "onresult"
  /\ settled' = NoReply
  /\ UNCHANGED << variant, isListeningForSTT, isVisualizerActive, audioContext,
                  mediaStreamSource, ctxOpen, streamsLive, gumPending, rec, micButton,
                  sent, inFlight, speechQueue, visualValueCount, visualElements, rafLoops,
                  fired, tt, errSeen, fault >>

\* (mutant) the buffer is cleared only when something was sent
TimerFireClearIfSent(id) ==
  /\ id \in timers
  /\ timers' = timers \ {id}
  /\ LET textToSend == Trim(sttFinalTranscript)
     IN /\ IF textToSend # << >> THEN Request(textToSend, "timer")
                                 ELSE setTranscript' = Nothing /\ UNCHANGED << sent, inFlight >>
        /\ sttFinalTranscript' = IF textToSend # << >> THEN << >> ELSE sttFinalTranscript
  /\ sinceFire' = << >>
  /\ sinceClear' = << >>
  /\ fired' = TRUE
  /\ last' = "timer"
  /\ settled' = NoReply
  /\ UNCHANGED << variant, isListeningForSTT, isVisualizerActive, audioContext,
                  mediaStreamSource, ctxOpen, streamsLive, gumPending, rec, micButton,
                  sttPauseTimer, speechQueue, visualValueCount, visualElements, rafLoops,
                  heard, nEvents, tt, errSeen, lateFinal, fault >>

\* (mutant) the buffer is not cleared after the send
TimerFireKeepBuffer(id) ==
  /\ id \in timers
  /\ timers' = timers \ {id}
  /\ LET textToSend == Trim(sttFinalTranscript)
     IN IF textToSend # << >> THEN Request(textToSend, "timer")
                              ELSE setTranscript' = Nothing /\ UNCHANGED << sent, inFlight >>
  /\ UNCHANGED sttFinalTranscript
  /\ sinceFire' = << >>
  /\ sinceClear' = << >>
  /\ fired' = TRUE
  /\ last' = "timer"
  /\ settled' = NoReply
  /\ UNCHANGED << variant, isListeningForSTT, isVisualizerActive, audioContext,
                  mediaStreamSource, ctxOpen, streamsLive, gumPending, rec, micButton,
                  sttPauseTimer, speechQueue, visualValueCount, visualElements, rafLoops,
                  heard, nEvents, tt, errSeen, lateFinal, fault >>

\* the callback setTimeout scheduled in onresult
TimerFire(id) ==
  /\ id \in timers
  /\ timers' = timers \ {id}
  /\ LET textToSend == Trim(sttFinalTranscript)
     IN IF textToSend # << >> THEN Request(textToSend, "timer")
                              ELSE setTranscript' = Nothing /\ UNCHANGED << sent, inFlight >>
  /\ sttFinalTranscript' = << >>
  /\ sinceFire' = << >>
  /\ sinceClear' = << >>
  /\ fired' = TRUE
  /\ last' = "timer"
  /\ settled' = NoReply
  /\ UNCHANGED << variant, isListeningForSTT, isVisualizerActive, audioContext,
                  mediaStreamSource, ctxOpen, streamsLive, gumPending, rec, micButton,
                  sttPauseTimer, speechQueue, visualValueCount, visualElements, rafLoops,
                  heard, nEvents, tt, errSeen, lateFinal, fault >>

\* (mutant) a reply ends the listening session and drops what is buffered
FetchSettleEndsListening(r) ==
  /\ inFlight > 0
  /\ inFlight' = inFlight - 1
  /\ setTranscript' = replyMessage(r)
  /\ speechQueue' = speakText(speechQueue)
  /\ isListeningForSTT' = FALSE
  /\ sttFinalTranscript' = << >>
  /\ settled' = r
  /\ last' = "fetch"
  /\ UNCHANGED << variant, isVisualizerActive, audioContext, mediaStreamSource, ctxOpen,
                  streamsLive, gumPending, rec, micButton, sttPauseTimer, timers, sent,
                  visualValueCount, visualElements, rafLoops, heard, sinceFire,
                  sinceClear, fired, nEvents, tt, errSeen, lateFinal, fault >>

\* the rest of sendToBackend, once its fetch has settled as r
FetchSettle(r) ==
  /\ inFlight > 0
  /\ inFlight' = inFlight - 1
  /\ setTranscript' = replyMessage(r)
  /\ speechQueue' = speakText(speechQueue)
  /\ settled' = r
  /\ last' = "fetch"
  /\ UNCHANGED << variant, isListeningForSTT, isVisualizerActive, audioContext,
                  mediaStreamSource, ctxOpen, streamsLive, gumPending, rec, micButton,
                  sttFinalTranscript, sttPauseTimer, timers, sent, visualValueCount,
                  visualElements, rafLoops, heard, sinceFire, sinceClear, fired, nEvents,
                  tt, errSeen, lateFinal, fault >>

\* the synthesizer finished an utterance
SpeechEnd ==
  /\ speechQueue > 0
  /\ speechQueue' = speechQueue - 1
  /\ last' = "speechend"
  /\ settled' = NoReply
  /\ setTranscript' = Nothing
  /\ UNCHANGED << variant, isListeningForSTT, isVisualizerActive, audioContext,
                  mediaStreamSource, ctxOpen, streamsLive, gumPending, rec, micButton,
                  sttFinalTranscript, sttPauseTimer, timers, sent, inFlight,
                  visualValueCount, visualElements, rafLoops, heard, sinceFire,
                  sinceClear, fired, nEvents, tt, errSeen, lateFinal, fault >>

\* once stopVisualizer has thrown, the statements after it do not run
OnErrorSimple(kind) ==
  /\ variant = "simple"
  /\ rec \in {"starting", "running", "stopping"}
  /\ rec' = "errored"
  /\ isListeningForSTT' = FALSE
  /\ micButton' = "start"
  /\ stopVisualizer
  /\ setTranscript' = IF visualElements = NoElements THEN Nothing ELSE errorMessage(kind)
  /\ errSeen' = TRUE
  /\ last' = "onerror"
  /\ settled' = NoReply
  /\ UNCHANGED << variant, gumPending, sttFinalTranscript, sttPauseTimer, timers, sent,
                  inFlight, speechQueue, visualValueCount, rafLoops, heard, sinceFire,
                  sinceClear, fired, nEvents, tt, lateFinal >>

OnErrorRich(kind) ==
  /\ variant = "rich"
  /\ rec \in {"starting", "running", "stopping"}
  /\ rec' = "errored"
  /\ timers' = ClearTimeout(timers, sttPauseTimer)
  /\ isListeningForSTT' = FALSE
  /\ micButton' = "start"
  /\ stopVisualizer
  /\ setTranscript' = IF visualElements = NoElements THEN Nothing ELSE errorMessage(kind)
  /\ speechQueue' = IF visualElements = NoElements THEN speechQueue ELSE speakText(speechQueue)
  /\ errSeen' = TRUE
  /\ last' = "onerror"
  /\ settled' = NoReply
  /\ UNCHANGED << variant, gumPending, sttFinalTranscript, sttPauseTimer, sent, inFlight,
                  visualValueCount, rafLoops, heard, sinceFire, sinceClear, fired,
                  nEvents, tt, lateFinal >>

OnEndSimple ==
  /\ variant = "simple"
  /\ rec \in {"running", "stopping", "errored"}
  /\ rec' = "idle"
  /\ isListeningForSTT' = FALSE
  /\ setTranscript' = "Ready"
  /\ micButton' = "start"
  /\ stopVisualizer
  /\ last' = "onend"
  /\ settled' = NoReply
  /\ UNCHANGED << variant, gumPending, sttFinalTranscript, sttPauseTimer, timers, sent,
                  inFlight, speechQueue, visualValueCount, rafLoops, heard, sinceFire,
                  sinceClear, fired, nEvents, tt, errSeen, lateFinal >>

\* (mutant) onend resets the buffer without sending what is left in it
OnEndRichNoFlush ==
  /\ variant = "rich"
  /\ rec \in {"running", "stopping", "errored"}
  /\ rec' = "idle"
  /\ isListeningForSTT' = FALSE
  /\ timers' = ClearTimeout(timers, sttPauseTimer)
  /\ sttFinalTranscript' = << >>
  /\ sinceClear' = << >>
  /\ last' = "onend"
  /\ settled' = NoReply
  /\ setTranscript' = Nothing
  /\ UNCHANGED << variant, isVisualizerActive, audioContext, mediaStreamSource, ctxOpen,
                  streamsLive, gumPending, micButton, sttPauseTimer, sent, inFlight,
                  speechQueue, visualValueCount, visualElements, rafLoops, heard,
                  sinceFire, fired, nEvents, tt, errSeen, lateFinal, fault >>

\* (mutant) onend sends what is buffered but leaves the buffer and the timer
OnEndRichKeepsBuffer ==
  /\ variant = "rich"
  /\ rec \in {"running", "stopping", "errored"}
  /\ rec' = "idle"
  /\ isListeningForSTT' = FALSE
  /\ LET textToSend == Trim(sttFinalTranscript)
     IN IF textToSend # << >> THEN Request(textToSend, "onend")
                              ELSE setTranscript' = Nothing /\ UNCHANGED << sent, inFlight >>
  /\ last' = "onend"
  /\ settled' = NoReply
  /\ UNCHANGED << variant, isVisualizerActive, audioContext, mediaStreamSource, ctxOpen,
                  streamsLive, gumPending, micButton, sttFinalTranscript, sttPauseTimer,
                  timers, speechQueue, visualValueCount, visualElements, rafLoops, heard,
                  sinceFire, sinceClear, fired, nEvents, tt, errSeen, lateFinal, fault >>

OnEndRich ==
  /\ variant = "rich"
  /\ rec \in {"running", "stopping", "errored"}
  /\ rec' = "idle"
  /\ isListeningForSTT' = FALSE
  /\ timers' = ClearTimeout(timers, sttPauseTimer)
  /\ LET textToSend == Trim(sttFinalTranscript)
     IN IF textToSend # << >> THEN Request(textToSend, "onend")
                              ELSE setTranscript' = Nothing /\ UNCHANGED << sent, inFlight >>
  /\ sttFinalTranscript' = << >>
  /\ sinceClear' = << >>
  /\ last' = "onend"
  /\ settled' = NoReply
  /\ UNCHANGED << variant, isVisualizerActive, audioContext, mediaStreamSource, ctxOpen,
                  streamsLive, gumPending, micButton, sttPauseTimer, speechQueue,
                  visualValueCount, visualElements, rafLoops, heard, sinceFire, fired,
                  nEvents, tt, errSeen, lateFinal, fault >>

Next ==
  \/ toggleSTTAndVisualizer(MaxCapture)
  \/ GumResolve(MaxCapture)
  \/ GumReject
  \/ \E data \in FramesCtl : RenderFrame(data)
  \/ OnStartSimple
  \/ OnStartRich
  \/ \E ev \in EventsCtl : OnResultSimple(ev, MaxEventsCtl)
  \/ \E ev \in EventsCtl : OnResultRich(ev, MaxEventsCtl)
  \/ \E id \in timers : TimerFire(id)
  \/ \E kind \in ErrorKinds : OnErrorSimple(kind)
  \/ \E kind \in ErrorKinds : OnErrorRich(kind)
  \/ OnEndSimple
  \/ OnEndRich

Spec == Init /\ [][Next]_vars

\* part_001 on a desktop user agent
InitRich == Init /\ variant = "rich" /\ visualValueCount = 32

NextRich ==
  \/ toggleSTTAndVisualizer(MaxCaptureRich)
  \/ GumResolve(MaxCaptureRich)
  \/ GumReject
  \/ OnStartRich
  \/ \E ev \in Events : OnResultRich(ev, MaxEvents)
  \/ \E id \in timers : TimerFire(id)
  \/ \E kind \in ErrorKinds : OnErrorRich(kind)
  \/ OnEndRich

SpecRich == InitRich /\ [][NextRich]_vars

\* both variants, with no toggle while the capture request of an earlier one is
\* still open or pending
NextSerial ==
  \/ toggleSTTAndVisualizer(MaxCaptureRich)
  \/ GumResolve(MaxCaptureRich)
  \/ GumReject
  \/ \E data \in FramesCtl : RenderFrame(data)
  \/ OnStartSimple
  \/ OnStartRich
  \/ \E ev \in EventsCtl : OnResultSimple(ev, MaxEventsCtl)
  \/ \E ev \in EventsCtl : OnResultRich(ev, MaxEventsCtl)
  \/ \E id \in timers : TimerFire(id)
  \/ \E kind \in ErrorKinds : OnErrorSimple(kind)
  \/ \E kind \in ErrorKinds : OnErrorRich(kind)
  \/ OnEndSimple
  \/ OnEndRich

SpecSerial == Init /\ [][NextSerial]_vars

\* the richer variant with the backend's replies and the end of each utterance
NextBackend ==
  \/ toggleSTTAndVisualizer(MaxCaptureRich)
  \/ GumResolve(MaxCaptureRich)
  \/ GumReject
  \/ OnStartRich
  \/ \E ev \in EventsCtl : OnResultRich(ev, MaxEvents)
  \/ \E id \in timers : TimerFire(id)
  \/ \E r \in Replies : FetchSettle(r)
  \/ SpeechEnd
  \/ \E kind \in ErrorKinds : OnErrorRich(kind)
  \/ OnEndRich

SpecBackend == InitRich /\ [][NextBackend]_vars

\* the visualizer of both variants, every bar count, with every frame of Frames
\* and no result events
NextVis ==
  \/ toggleSTTAndVisualizer(MaxCapture)
  \/ GumResolve(MaxCapture)
  \/ GumReject
  \/ \E data \in Frames : RenderFrame(data)
  \/ OnStartSimple
  \/ OnStartRich
  \/ \E kind \in ErrorKinds : OnErrorSimple(kind)
  \/ \E kind \in ErrorKinds : OnErrorRich(kind)
  \/ OnEndSimple
  \/ OnEndRich

SpecVis == Init /\ [][NextVis]_vars

\* ---------------------------------------------------------------- properties
\* the texts of the requests issued so far
SentTexts == [i \in 1..Len(sent) |-> sent[i].text]

\* the string the step passed to sendToBackend's request, empty when it sent nothing
Dispatched == IF Len(sent') = Len(sent) + 1 THEN sent'[Len(sent')].text ELSE << >>

\* what the buffer holds after the events of evs: each event's final texts
\* concatenated and, when that is not empty, followed by one space
RECURSIVE Buffered(_)
Buffered(evs) ==
  IF evs = << >> THEN << >>
  ELSE (IF Concat(Head(evs)) # << >> THEN Concat(Head(evs)) \o <<SP>> ELSE << >>)
         \o Buffered(Tail(evs))

\* C1 (as claimed): at most one capture session (open audio graph, live
\* microphone stream) exists, isListeningForSTT is true exactly while the
\* recognition session has started and not ended, and isVisualizerActive is
\* true exactly while a microphone stream is held.
C1_OneSessionFlagsAgree ==
  /\ ctxOpen <= 1
  /\ streamsLive <= 1
  /\ isListeningForSTT <=> (rec \in {"running", "stopping"})
  /\ isVisualizerActive <=> (streamsLive > 0)

\* C2 (as claimed): after two toggles in a row from idle, once the started
\* callback and the microphone-permission callbacks have run, the system is
\* idle and holds no open audio graph and no live stream.
C2_DoubleToggleIdle ==
  (tt = 2 /\ gumPending = 0 /\ rec # "starting")
    => (~isListeningForSTT /\ ~isVisualizerActive /\ ctxOpen = 0 /\ streamsLive = 0)

\* C3 (as claimed): the string a debounce-timer fire passes to sendToBackend is
\* the final results' texts delivered since the previous fire, joined by single
\* spaces and trimmed.
C3_JoinedSinceLastFire ==
  [][(last' = "timer" /\ fired) => Dispatched = Trim(JoinSp(sinceFire))]_vars

\* C3 (amended): the string a debounce-timer fire passes to sendToBackend is
\* built from the events delivered since the buffer was last emptied (by a timer
\* fire, the ended flush or the started callback): the final texts of one event
\* concatenated, each non-empty one followed by a space, the whole trimmed.
\* Interim text is no part of it.
C3_FinalsSinceBufferEmptied ==
  [][(last' = "timer") => Dispatched = Trim(Buffered(sinceClear))]_vars

\* a fire has sent the finals of two events, joined by a space
C3_Witness ==
  /\ last = "timer"
  /\ nEvents = 2
  /\ sent = << [text |-> <<"a", SP, "b">>, by |-> "timer"] >>

\* C4: every final result's text is dispatched exactly once: the non-space
\* characters sent so far, followed by those still buffered, are those of the
\* final results delivered, in order; when no session exists nothing is
\* buffered, so all of them were sent, by a timer fire or the ended flush.
C4_ExactlyOnce ==
  /\ NonSpace(Concat(SentTexts)) \o NonSpace(sttFinalTranscript) = heard
  /\ rec = "idle" => sttFinalTranscript = << >>
  /\ \A i \in 1..Len(sent) : sent[i].by \in {"timer", "onend"}

\* an interim result, a final one, the timer sent it, and ended sent nothing more
C4_Witness ==
  /\ rec = "idle" /\ last = "onend"
  /\ nEvents = 2 /\ heard = <<"b">>
  /\ sent = << [text |-> <<"b">>, by |-> "timer"] >>

\* C5: when the ended callback runs with a buffer that is not empty after
\* trimming, it sends the trimmed buffer, and leaves the buffer empty and no
\* timer scheduled.
C5_EndedFlushes ==
  [][(last' = "onend" /\ Trim(sttFinalTranscript) # << >>)
       => /\ sent' = Append(sent, [text |-> Trim(sttFinalTranscript), by |-> "onend"])
          /\ sttFinalTranscript' = << >>
          /\ timers' = {}]_vars

\* ended, after a recognition error, has just sent what was left
C5_Witness ==
  /\ last = "onend" /\ errSeen
  /\ sent # << >> /\ sent[Len(sent)].by = "onend"
  /\ sttFinalTranscript = << >> /\ timers = {}

\* C6: at most one debounce timer is scheduled, and it is the one sttPauseTimer
\* names: a superseded timer is never left to fire.
C6_OneTimer == Cardinality(timers) <= 1 /\ timers \subseteq {sttPauseTimer}

\* a second result event has rescheduled the timer
C6_Witness == last = "onresult" /\ nEvents >= 2 /\ timers # {} /\ ~fired

\* C7: a result delivered after the stop request or after an error is appended
\* to the buffer like any other, and once the session has ended everything
\* delivered has been sent.
C7_LateResultKept ==
  [][/\ (last' = "onresult" /\ rec \in {"stopping", "errored"})
        => NonSpace(sttFinalTranscript')
             = NonSpace(sttFinalTranscript) \o SubSeq(heard', Len(heard) + 1, Len(heard'))
     /\ (lateFinal' /\ rec' = "idle")
        => (sttFinalTranscript' = << >> /\ NonSpace(Concat(SentTexts')) = heard')]_vars

\* a final result came after the stop request or error, and ended sent it
C7_Witness ==
  /\ lateFinal /\ rec = "idle" /\ last = "onend"
  /\ sent # << >> /\ sent[Len(sent)].by = "onend"

\* C8: after a timer fire the buffer is empty whether or not anything was sent,
\* and no request carries an empty or whitespace-only input.
C8_NoEmptyRequest ==
  /\ last = "timer" => sttFinalTranscript = << >>
  /\ \A i \in 1..Len(sent) : Trim(sent[i].text) # << >>

\* a timer fired after a whitespace-only final result: buffer emptied, nothing sent
C8_Witness ==
  /\ last = "timer" /\ sttFinalTranscript = << >>
  /\ nEvents = 1 /\ sinceFire = << >> /\ heard = << >> /\ sent = << >>

\* C9 (as claimed): right after the ended callback the capture source is
\* released and the button shows "start", in both variants.
C9_EndedReleasesCapture ==
  last = "onend"
    => /\ ~isVisualizerActive
       /\ mediaStreamSource # "node"
       /\ audioContext # "open"
       /\ micButton = "start"

\* C10 (as claimed): after a capture-start failure or a recognition error, once
\* no callback is pending, the session is idle: not listening, visualizer off,
\* no recognition session and no live stream.
C10_ErrorsCollapseToIdle ==
  (errSeen /\ gumPending = 0 /\ rec \in {"idle", "running"})
    => /\ ~isListeningForSTT /\ ~isVisualizerActive
       /\ rec = "idle"
       /\ streamsLive = 0

\* C11: the continuation of a settled fetch, whatever the reply, leaves the
\* listening flag, the visualizer flag, the transcript buffer, the debounce
\* timer, the recognition session and the button as they were.
C11_ReplyLeavesSession ==
  [][(last' = "fetch" /\ settled' \in Replies)
       => UNCHANGED << isListeningForSTT, isVisualizerActive, sttFinalTranscript,
                       sttPauseTimer, timers, rec, micButton >>]_vars

\* a failed request was reported while the session listens, with text buffered
\* and its timer scheduled
C11_Witness ==
  /\ last = "fetch" /\ settled.fetch = "rejected"
  /\ isListeningForSTT /\ rec = "running"
  /\ sttFinalTranscript # << >> /\ timers # {}

\* C12 (as claimed): a settled fetch displays and speaks one message: the
\* response text for a success status with a non-empty response field, "didn't
\* get a valid response" for a success status whose body lacks the field, and
\* "couldn't connect" for a rejected fetch or a non-success status.
C12_MessagePerOutcome ==
  last = "fetch"
    => /\ speechQueue = 1
       /\ (settled.fetch = "resolved" /\ settled.ok /\ settled.body = "response")
            => setTranscript = "<response>"
       /\ (settled.fetch = "resolved" /\ settled.ok
              /\ settled.body \in {"noField", "unparseable"})
            => setTranscript = "Sorry, I didn't get a valid response."
       /\ (settled.fetch = "rejected" \/ ~settled.ok)
            => setTranscript = "Sorry, I couldn't connect to the AI."

\* C12 (amended): as claimed for a body that parses as JSON; a success status
\* whose body does not parse is reported as "couldn't connect", and an empty
\* response field as "didn't get a valid response".
C12_MessagePerParsedOutcome ==
  last = "fetch"
    => /\ speechQueue = 1
       /\ (settled.fetch = "resolved" /\ settled.ok /\ settled.body = "response")
            => setTranscript = "<response>"
       /\ (settled.fetch = "resolved" /\ settled.ok
              /\ settled.body \in {"noField", "emptyResponse"})
            => setTranscript = "Sorry, I didn't get a valid response."
       /\ (settled.fetch = "rejected" \/ ~settled.ok
              \/ settled.body = "unparseable")
            => setTranscript = "Sorry, I couldn't connect to the AI."

\* a success status with a body that is not JSON was reported
C12_Witness ==
  /\ last = "fetch"
  /\ settled = Reply("resolved", TRUE, "unparseable")
  /\ setTranscript = "Sorry, I couldn't connect to the AI."
  /\ speechQueue = 1

\* C13 (as claimed): at most one backend request is in flight.
C13_OneInFlight == inFlight <= 1

\* the capture objects stopVisualizer acts on
Capture ==
  << mediaStreamSource, streamsLive, audioContext, ctxOpen, isVisualizerActive,
     visualElements >>

\* the step ran stopVisualizer
Teardown == last' = "onerror" \/ (last' = "onend" /\ variant = "simple")

\* every bar of the list is styled scaleY(0), opacity 0
AllOff(elms) == \A i \in DOMAIN elms : elms[i] = Bar(0, 0)

\* C14: a callback that runs stopVisualizer ends without a fault, also while
\* the capture request is still pending; it releases at most one stream and one
\* audio graph; and when the ended callback runs it right after the error
\* callback did, the second run releases nothing and leaves the capture state
\* as the first left it.
C14_TeardownIdempotent ==
  [][Teardown
       => /\ ~fault'
          /\ streamsLive' + 1 >= streamsLive
          /\ ctxOpen' + 1 >= ctxOpen
          /\ (last = "onerror" /\ last' = "onend") => UNCHANGED Capture]_vars

\* the error callback, then the ended callback, both while getUserMedia was
\* still pending: the audio graph is closed, nothing faulted
C14_Witness ==
  /\ variant = "simple" /\ last = "onend" /\ errSeen
  /\ gumPending > 0 /\ audioContext = "null" /\ mediaStreamSource = "undefined"
  /\ ctxOpen = 0 /\ ~fault

\* C15 (as claimed): the bar-index mapping, applied to the bars of the
\* configuration, is one-to-one onto the bucket indices 0..visualValueCount-1.
C15_MappingBijective ==
  /\ \A i, j \in 0..(visualValueCount - 1) : dataMap[i] = dataMap[j] => i = j
  /\ { dataMap[i] : i \in 0..(visualValueCount - 1) } = 0..(visualValueCount - 1)

\* C16: a frame rendered while the visualizer is active styles bar i with
\* scale byte/255 and opacity max(0.25, byte/255), byte being the frame's value
\* at bucket dataMap[i] (in 510ths and 1020ths: 2*byte, and 4*byte or at least
\* 255); stopVisualizer leaves every bar at scale 0 and opacity 0, and a frame
\* rendered while the visualizer is not active leaves them so.
C16_BarsFollowFrame ==
  [][/\ \A data \in Frames :
          (isVisualizerActive /\ RenderFrame(data))
            => \A i \in 0..(visualValueCount - 1) :
                 LET byte == data[dataMap[i]]
                 IN /\ visualElements'[i].scale = 2 * byte
                    /\ visualElements'[i].opacity = (IF 4 * byte >= 255 THEN 4 * byte ELSE 255)
     /\ Teardown => AllOff(visualElements')
     /\ (~isVisualizerActive /\ last' = "frame") => AllOff(visualElements')]_vars

\* the ramp frame in src/script.js: bar 31 shows bucket 31 (byte 248), bar 15
\* shows bucket 0 (byte 0) at the opacity floor
C16_Witness ==
  /\ variant = "simple" /\ last = "frame" /\ isVisualizerActive
  /\ visualElements[31] = Bar(496, 992)
  /\ visualElements[15] = Bar(0, 255)

\* C17 (as claimed): in the simpler variant, once the ended callback has run,
\* what the session's final results said has been sent to the backend.
C17_EndedSends ==
  (variant = "simple" /\ last = "onend" /\ heard # << >>)
    => NonSpace(Concat(SentTexts)) = heard

\* C17 (amended): the simpler variant accumulates nothing, schedules no debounce
\* timer and sends nothing to the backend; its ended callback displays "Ready".
C17_SimpleNeverSends ==
  variant = "simple"
    => /\ sent = << >> /\ inFlight = 0
       /\ timers = {} /\ sttPauseTimer = 0
       /\ sttFinalTranscript = << >>
       /\ last = "onend" => setTranscript = "Ready"

\* a final result was delivered and the session ended: nothing was sent
C17_Witness ==
  /\ variant = "simple" /\ last = "onend" /\ rec = "idle"
  /\ heard = <<"a">> /\ sent = << >>
  /\ setTranscript = "Ready"

\* the step released a stream or an audio graph
Released == streamsLive' < streamsLive \/ ctxOpen' < ctxOpen

\* the step reset the button from "stop" to "start"
ButtonReset == micButton = "stop" /\ micButton' = "start"

\* the step emptied a buffer that held text
BufferCleared == sttFinalTranscript # << >> /\ sttFinalTranscript' = << >>

\* toggle() while listening changes nothing but the recognizer's session
ToggleOnlyRequestsStop ==
  (last' = "toggle" /\ isListeningForSTT)
    => /\ UNCHANGED << isListeningForSTT, micButton, sttFinalTranscript, timers >>
       /\ UNCHANGED Capture

C19_ListeningOnlyOnceStarted ==
  [][/\ (~isListeningForSTT /\ isListeningForSTT') => last' = "onstart"
     /\ last' = "toggle" => isListeningForSTT' = isListeningForSTT
     /\ last' = "onstart"
          => (isListeningForSTT' /\ micButton' = "stop" /\ setTranscript' = "Listening...")
     /\ rec' = "starting" => ~isListeningForSTT']_vars

\* the started callback has just run
C19_Witness ==
  /\ last = "onstart" /\ rec = "running"
  /\ isListeningForSTT /\ micButton = "stop" /\ setTranscript = "Listening..."

\* C20: the synthesizer never holds more than one utterance, and none right
\* after the started callback.
C20_OneUtterance ==
  /\ speechQueue <= 1
  /\ last = "onstart" => speechQueue = 0

\* a second reply is being spoken alone while the session listens, and a later
\* session has started with nothing being spoken
C20_Witness ==
  /\ last = "onstart" /\ speechQueue = 0
  /\ Len(sent) = 2 /\ inFlight = 0

\* C21 (as claimed): when a getUserMedia request resolves after its session has
\* ended (no recognition session, not listening), the granted stream is not
\* left live and the visualizer is not left active.  A request is only issued
\* by a toggle() that finds or starts a session, so a request pending with no
\* session is one its session ended on.
C21_LateGrantReleased ==
  (last = "gumOk" /\ rec = "idle" /\ ~isListeningForSTT)
    => /\ streamsLive = 0
       /\ ~isVisualizerActive

\* C22: in the richer variant no transcript text crosses sessions.  Right after
\* the started callback, and whenever no recognition session exists, the buffer
\* is empty and no debounce timer is scheduled; and every request, sent by a
\* timer fire or by the ended flush, carries the trimmed buffer built from the
\* events of sinceClear alone, which the started callback empties: final
\* fragments delivered in the session the request is sent in.
C22_NothingCrossesSessions ==
  /\ [](variant = "rich" /\ (last = "onstart" \/ rec \in {"idle", "starting"})
          => (sttFinalTranscript = << >> /\ timers = {} /\ sinceClear = << >>))
  /\ [][(variant = "rich" /\ Len(sent') > Len(sent))
          => /\ rec \in {"running", "stopping", "errored"}
             /\ Dispatched = Trim(Buffered(sinceClear))]_vars

\* the first session's ended flush sent "a"; a later session, which only a new
\* started callback opens, has sent "b" and nothing of the first
C22_Witness ==
  /\ Len(sent) = 2
  /\ sent[1] = [text |-> <<"a">>, by |-> "onend"]
  /\ sent[2].text = <<"b">>

\* C23 (as claimed): at most one render loop is scheduled at any time.
C23_OneRenderLoop == rafLoops <= 1

====
